---------------------------- MODULE Spec2Model ----------------------------
(***************************************************************************)
(* Flow-topology and supply-distribution engine of src/server.js.           *)
(*                                                                         *)
(* Coordinates are integers on a grid whose step is one metre (about        *)
(* 9e-6 degrees near the equator), so that toFixed(6) keeps any two grid    *)
(* points apart and the great-circle distance between grid points is the    *)
(* planar one.  A distance is carried as the exact rational square          *)
(* num/den of its length in metres; "dist < d" is num < d*d*den.            *)
(***************************************************************************)
EXTENDS Integers, Sequences, FiniteSets, TLC

VARIABLES tanks, valves, pipelines, req, flowCall, overview, locals, toggle, history

vars == <<tanks, valves, pipelines, req, flowCall, overview, locals, toggle, history>>

-----------------------------------------------------------------------------
(* Program constants *)

CONNECT_DISTANCE == 50

VALVE_BLOCK_DISTANCE == 3

VALVE_PIPE_DISTANCE == 15

HOUSEHOLD_RATE == 10

-----------------------------------------------------------------------------
(* Small helpers *)

Min(S) == CHOOSE x \in S : \A y \in S : x <= y

Max2(a, b) == IF a >= b THEN a ELSE b

Min2(a, b) == IF a <= b THEN a ELSE b

RECURSIVE SumSeq(_)
SumSeq(s) == IF s = <<>> THEN 0 ELSE Head(s) + SumSeq(Tail(s))

Pt(la, ln) == [lat |-> la, lng |-> ln]

-----------------------------------------------------------------------------
(* Geo-Math *)

\* haversineDistance(pos1, pos2): the squared length, as a rational.
haversineDistance(pos1, pos2) ==
    [num |-> (pos2.lat - pos1.lat) * (pos2.lat - pos1.lat)
             + (pos2.lng - pos1.lng) * (pos2.lng - pos1.lng),
     den |-> 1]

\* dist < metres
LessThan(dist, metres) == dist.num < metres * metres * dist.den

\* distanceToSegment(point, segmentStart, segmentEnd): the projection
\* parameter dot/lenSq is clamped to [0,1]; a zero-length segment takes
\* param = -1, that is the distance to segmentStart.
distanceToSegment(point, segmentStart, segmentEnd) ==
    LET A == point.lat - segmentStart.lat
        B == point.lng - segmentStart.lng
        C == segmentEnd.lat - segmentStart.lat
        D == segmentEnd.lng - segmentStart.lng
        dot == A * C + B * D
        lenSq == C * C + D * D
    IN  IF lenSq = 0 \/ dot < 0
        THEN haversineDistance(point, segmentStart)
        ELSE IF dot > lenSq
        THEN haversineDistance(point, segmentEnd)
        ELSE [num |-> (A * A + B * B) * lenSq - dot * dot, den |-> lenSq]

-----------------------------------------------------------------------------
(* Pipeline node data.  The nodes column is TEXT: either the JSON of an     *)
(* array of items, or text JSON.parse rejects.  An item is a waypoint       *)
(* (numeric lat and lng) or something else (null, a non-numeric field).     *)

Waypoint(la, ln) == [valid |-> TRUE, lat |-> la, lng |-> ln]

BadItem == [valid |-> FALSE, lat |-> 0, lng |-> 0]

JsonArray(items) == [json |-> "array", items |-> items]

Garbage == [json |-> "garbage", items |-> <<>>]

\* JSON.parse(text): the parsed array, or a SyntaxError.
JsonParse(text) ==
    IF text.json = "array"
    THEN [ok |-> TRUE, value |-> text.items]
    ELSE [ok |-> FALSE, value |-> <<>>]

\* nodes[i] && typeof nodes[i].lat === 'number' && typeof nodes[i].lng === 'number'
IsWaypoint(item) == item.valid

-----------------------------------------------------------------------------
(* Graph Builder: graph.nodes is a Map, kept here as the sequence of its    *)
(* entries in insertion order; graph.edges is the list of forward edges.    *)

NoKey == <<>>

\* `${lat.toFixed(6)},${lng.toFixed(6)}`
getNodeKey(lat, lng) == <<lat, lng>>

EmptyGraph == [nodes |-> <<>>, edges |-> <<>>]

HasNode(graph, key) == \E i \in 1..Len(graph.nodes) : graph.nodes[i].key = key

NodeIndex(graph, key) == CHOOSE i \in 1..Len(graph.nodes) : graph.nodes[i].key = key

\* graph.nodes.get(key)
NodeGet(graph, key) == graph.nodes[NodeIndex(graph, key)]

\* graph.nodes.set(key, { position, edges: [] })
NodeSet(graph, key, position) ==
    LET entry == [key |-> key, position |-> position, edges |-> <<>>]
    IN  IF HasNode(graph, key)
        THEN [graph EXCEPT !.nodes[NodeIndex(graph, key)] = entry]
        ELSE [graph EXCEPT !.nodes = Append(@, entry)]

\* findNearbyNode returning the last node closer than connectDistance
findLastNearbyNode(graph, position, connectDistance) ==
    LET near == {i \in 1..Len(graph.nodes) :
                    LessThan(haversineDistance(position, graph.nodes[i].position),
                             connectDistance)}
    IN  IF near = {} THEN NoKey
        ELSE graph.nodes[CHOOSE i \in near : \A j \in near : j <= i].key

\* the first node, in insertion order, closer than connectDistance
findNearbyNode(graph, position, connectDistance) ==
    LET near == {i \in 1..Len(graph.nodes) :
                    LessThan(haversineDistance(position, graph.nodes[i].position),
                             connectDistance)}
    IN  IF near = {} THEN NoKey ELSE graph.nodes[Min(near)].key

\* SnapNode that sets a node at every waypoint, looking for none nearby
SnapNodeAlways(graph, position, connectDistance) ==
    LET key == getNodeKey(position.lat, position.lng)
    IN  [graph |-> NodeSet(graph, key, position), key |-> key]

\* findNearbyNode, else a new node at the waypoint: <<graph, key>>
SnapNode(graph, position, connectDistance) ==
    LET found == findNearbyNode(graph, position, connectDistance)
        key == getNodeKey(position.lat, position.lng)
    IN  IF found # NoKey
        THEN [graph |-> graph, key |-> found]
        ELSE [graph |-> NodeSet(graph, key, position), key |-> key]

\* graph.nodes.get(key).edges.push(edge)
PushEdge(graph, key, edge) ==
    [graph EXCEPT !.nodes[NodeIndex(graph, key)].edges = Append(@, edge)]

\* one iteration of the waypoint loop of buildPipelineGraph
AddWaypoint(graph, pipelineId, nodes, i, connectDistance) ==
    IF ~IsWaypoint(nodes[i]) THEN graph
    ELSE
      LET here == SnapNode(graph, Pt(nodes[i].lat, nodes[i].lng), connectDistance)
      IN  IF i >= Len(nodes) THEN here.graph
          ELSE IF ~IsWaypoint(nodes[i + 1]) THEN here.graph
          ELSE
            LET next == SnapNode(here.graph, Pt(nodes[i + 1].lat, nodes[i + 1].lng),
                                 connectDistance)
                edge == [from |-> here.key, to |-> next.key, pipelineId |-> pipelineId]
                reverseEdge == [from |-> next.key, to |-> here.key,
                                pipelineId |-> pipelineId]
                g1 == PushEdge(next.graph, here.key, edge)
                g2 == PushEdge(g1, next.key, reverseEdge)
            IN  [g2 EXCEPT !.edges = Append(@, edge)]

RECURSIVE WaypointLoop(_, _, _, _, _)
WaypointLoop(graph, pipelineId, nodes, i, connectDistance) ==
    IF i > Len(nodes) THEN graph
    ELSE WaypointLoop(AddWaypoint(graph, pipelineId, nodes, i, connectDistance),
                      pipelineId, nodes, i + 1, connectDistance)

\* the body of pipelines.forEach in buildPipelineGraph: a parse error is
\* caught and leaves no nodes; an empty array is skipped
AddPipeline(graph, pipeline, connectDistance) ==
    LET parsed == JsonParse(pipeline.nodes)
        nodes == IF parsed.ok THEN parsed.value ELSE <<>>
    IN  IF Len(nodes) = 0 THEN graph
        ELSE WaypointLoop(graph, pipeline.id, nodes, 1, connectDistance)

RECURSIVE PipelineLoop(_, _, _, _)
PipelineLoop(graph, pipes, k, connectDistance) ==
    IF k > Len(pipes) THEN graph
    ELSE PipelineLoop(AddPipeline(graph, pipes[k], connectDistance),
                      pipes, k + 1, connectDistance)

buildPipelineGraph(pipes, connectDistance) ==
    PipelineLoop(EmptyGraph, pipes, 1, connectDistance)

-----------------------------------------------------------------------------
(* Flow Propagator *)

\* ValveBlocks with the closest point clamped to the segment, as in
\* distanceToSegment
ValveBlocksClamped(valve, segmentStart, segmentEnd, maxDistance) ==
    LessThan(distanceToSegment(Pt(valve.latitude, valve.longitude),
                               segmentStart, segmentEnd),
             maxDistance)

\* the body of the loop of findBlockingValve for one closed valve: a
\* zero-length segment and a projection beyond either endpoint are skipped
ValveBlocks(valve, segmentStart, segmentEnd, maxDistance) ==
    LET A == valve.latitude - segmentStart.lat
        B == valve.longitude - segmentStart.lng
        C == segmentEnd.lat - segmentStart.lat
        D == segmentEnd.lng - segmentStart.lng
        dot == A * C + B * D
        lenSq == C * C + D * D
    IN  /\ lenSq # 0
        /\ ~(dot < 0 \/ dot > lenSq)
        /\ LessThan([num |-> (A * A + B * B) * lenSq - dot * dot, den |-> lenSq],
                    maxDistance)

\* findBlockingValve that finds no valve
NoBlockingValve(segmentStart, segmentEnd, closedValves, maxDistance) == 0

\* findBlockingValve: the index in closedValves of the first blocking valve,
\* 0 for null
findBlockingValve(segmentStart, segmentEnd, closedValves, maxDistance) ==
    LET hits == {i \in 1..Len(closedValves) :
                    ValveBlocks(closedValves[i], segmentStart, segmentEnd, maxDistance)}
    IN  IF hits = {} THEN 0 ELSE Min(hits)

\* no call has run yet: no Set, no list
NoLocals ==
    [visitedEdges |-> {}, blockedEdges |-> {}, visitedNodes |-> {},
     segments |-> <<>>, blockedSegments |-> <<>>, queue |-> <<>>,
     expanded |-> <<>>, steps |-> 0]

\* FreshLocals with the Sets of the call before kept
StaleLocals ==
    [locals EXCEPT !.segments = <<>>, !.blockedSegments = <<>>, !.queue = <<>>]

\* const visitedEdges, blockedEdges, visitedNodes = new Set(); flowData
FreshLocals ==
    [visitedEdges |-> {}, blockedEdges |-> {}, visitedNodes |-> {},
     segments |-> <<>>, blockedSegments |-> <<>>, queue |-> <<>>,
     expanded |-> <<>>, steps |-> 0]

\* EdgeSeen without the look-up in blockedEdges
EdgeSeenVisitedOnly(st, edgeKey, reverseKey) ==
    edgeKey \in st.visitedEdges \/ reverseKey \in st.visitedEdges

\* visitedEdges.has(edgeKey) || visitedEdges.has(reverseKey), and the same
\* for blockedEdges
EdgeSeen(st, edgeKey, reverseKey) ==
    \/ edgeKey \in st.visitedEdges \/ reverseKey \in st.visitedEdges
    \/ edgeKey \in st.blockedEdges \/ reverseKey \in st.blockedEdges

\* MarkBlocked that also queues the far end of the blocked edge
MarkBlockedAndExpand(st, edge, startPos, endPos, valve) ==
    [st EXCEPT !.blockedEdges = @ \cup {<<edge.from, edge.to>>, <<edge.to, edge.from>>},
               !.blockedSegments = Append(@, [pipelineId |-> edge.pipelineId,
                                              start |-> startPos, end |-> endPos,
                                              blockedBy |-> valve.name]),
               !.queue = Append(@, [nodeKey |-> edge.to, sourceTank |-> "beyond"])]

\* the blockingValve branch: the edge is recorded, its far end is not queued
MarkBlocked(st, edge, startPos, endPos, valve) ==
    [st EXCEPT !.blockedEdges = @ \cup {<<edge.from, edge.to>>, <<edge.to, edge.from>>},
               !.blockedSegments = Append(@, [pipelineId |-> edge.pipelineId,
                                              start |-> startPos, end |-> endPos,
                                              blockedBy |-> valve.name])]

\* MarkFlowing without the queue.push of the far end
MarkFlowingNoEnqueue(st, edge, startPos, endPos, sourceTank) ==
    [st EXCEPT !.visitedEdges = @ \cup {<<edge.from, edge.to>>, <<edge.to, edge.from>>},
               !.segments = Append(@, [pipelineId |-> edge.pipelineId,
                                       start |-> startPos, end |-> endPos,
                                       sourceTank |-> sourceTank])]

\* the else branch: the edge is recorded and its far end queued
MarkFlowing(st, edge, startPos, endPos, sourceTank) ==
    [st EXCEPT !.visitedEdges = @ \cup {<<edge.from, edge.to>>, <<edge.to, edge.from>>},
               !.segments = Append(@, [pipelineId |-> edge.pipelineId,
                                       start |-> startPos, end |-> endPos,
                                       sourceTank |-> sourceTank]),
               !.queue = Append(@, [nodeKey |-> edge.to, sourceTank |-> sourceTank])]

\* ExploreEdge leaving a blocked edge out of the result
ExploreEdgeSilent(st, graph, closedValves, edge, sourceTank) ==
    IF EdgeSeen(st, <<edge.from, edge.to>>, <<edge.to, edge.from>>) THEN st
    ELSE
      LET startPos == NodeGet(graph, edge.from).position
          endPos == NodeGet(graph, edge.to).position
          blockingValve == findBlockingValve(startPos, endPos, closedValves,
                                             VALVE_BLOCK_DISTANCE)
      IN  IF blockingValve # 0
          THEN st
          ELSE MarkFlowing(st, edge, startPos, endPos, sourceTank)

\* the body of currentNode.edges.forEach
ExploreEdge(st, graph, closedValves, edge, sourceTank) ==
    IF EdgeSeen(st, <<edge.from, edge.to>>, <<edge.to, edge.from>>) THEN st
    ELSE
      LET startPos == NodeGet(graph, edge.from).position
          endPos == NodeGet(graph, edge.to).position
          blockingValve == findBlockingValve(startPos, endPos, closedValves,
                                             VALVE_BLOCK_DISTANCE)
      IN  IF blockingValve # 0
          THEN MarkBlocked(st, edge, startPos, endPos, closedValves[blockingValve])
          ELSE MarkFlowing(st, edge, startPos, endPos, sourceTank)

RECURSIVE ExploreEdges(_, _, _, _, _, _)
ExploreEdges(st, graph, closedValves, edges, k, sourceTank) ==
    IF k > Len(edges) THEN st
    ELSE ExploreEdges(ExploreEdge(st, graph, closedValves, edges[k], sourceTank),
                      graph, closedValves, edges, k + 1, sourceTank)

\* Traverse without the test of visitedNodes
RECURSIVE TraverseRevisiting(_, _, _)
TraverseRevisiting(st, graph, closedValves) ==
    IF st.queue = <<>> THEN st
    ELSE
      LET current == Head(st.queue)
          st2 == [st EXCEPT !.queue = Tail(@), !.steps = @ + 1,
                            !.visitedNodes = @ \cup {current.nodeKey},
                            !.expanded = Append(@, current.nodeKey)]
      IN  IF ~HasNode(graph, current.nodeKey)
          THEN TraverseRevisiting(st2, graph, closedValves)
          ELSE TraverseRevisiting(ExploreEdges(st2, graph, closedValves,
                                               NodeGet(graph, current.nodeKey).edges,
                                               1, current.sourceTank),
                                  graph, closedValves)

\* while (queue.length > 0); steps counts the iterations of the loop and
\* expanded lists the node keys that passed the test of visitedNodes
RECURSIVE Traverse(_, _, _)
Traverse(st, graph, closedValves) ==
    IF st.queue = <<>> THEN st
    ELSE
      LET current == Head(st.queue)
          st1 == [st EXCEPT !.queue = Tail(@), !.steps = @ + 1]
      IN  IF current.nodeKey \in st1.visitedNodes
          THEN Traverse(st1, graph, closedValves)
          ELSE
            LET st2 == [st1 EXCEPT !.visitedNodes = @ \cup {current.nodeKey},
                                   !.expanded = Append(@, current.nodeKey)]
            IN  IF ~HasNode(graph, current.nodeKey)
                THEN Traverse(st2, graph, closedValves)
                ELSE Traverse(ExploreEdges(st2, graph, closedValves,
                                           NodeGet(graph, current.nodeKey).edges, 1,
                                           current.sourceTank),
                              graph, closedValves)

\* Find starting nodes near tank: the queue a tank starts with
SeedQueue(graph, tank, connectDistance) ==
    LET tankPos == Pt(tank.latitude, tank.longitude)
        near(i) == LessThan(haversineDistance(tankPos, graph.nodes[i].position),
                            connectDistance)
        F[i \in 0..Len(graph.nodes)] ==
            IF i = 0 THEN <<>>
            ELSE IF near(i)
                 THEN Append(F[i - 1], [nodeKey |-> graph.nodes[i].key,
                                        sourceTank |-> tank.name])
                 ELSE F[i - 1]
    IN  F[Len(graph.nodes)]

\* TankLoop that traverses from the first active tank only
TankLoopFirstOnly(st, graph, closedValves, activeTanks, k) ==
    IF k > Len(activeTanks) THEN st
    ELSE Traverse([st EXCEPT !.queue = SeedQueue(graph, activeTanks[1],
                                                 CONNECT_DISTANCE)],
                  graph, closedValves)

\* activeTanks.forEach
RECURSIVE TankLoop(_, _, _, _, _)
TankLoop(st, graph, closedValves, activeTanks, k) ==
    IF k > Len(activeTanks) THEN st
    ELSE TankLoop(Traverse([st EXCEPT !.queue = SeedQueue(graph, activeTanks[k],
                                                          CONNECT_DISTANCE)],
                           graph, closedValves),
                  graph, closedValves, activeTanks, k + 1)

\* CountSegments adding nodes.length instead of nodes.length - 1
RECURSIVE CountWaypoints(_, _)
CountWaypoints(pipes, k) ==
    IF k > Len(pipes) THEN [raised |-> FALSE, total |-> 0]
    ELSE
      LET parsed == JsonParse(pipes[k].nodes)
          rest == CountWaypoints(pipes, k + 1)
      IN  IF ~parsed.ok \/ rest.raised
          THEN [raised |-> TRUE, total |-> 0]
          ELSE [raised |-> FALSE, total |-> Len(parsed.value) + rest.total]

\* Calculate total segments: JSON.parse(pipeline.nodes) is not guarded here,
\* so one unparsable pipeline raises; each array adds nodes.length - 1
RECURSIVE CountSegments(_, _)
CountSegments(pipes, k) ==
    IF k > Len(pipes) THEN [raised |-> FALSE, total |-> 0]
    ELSE
      LET parsed == JsonParse(pipes[k].nodes)
          rest == CountSegments(pipes, k + 1)
      IN  IF ~parsed.ok \/ rest.raised
          THEN [raised |-> TRUE, total |-> 0]
          ELSE [raised |-> FALSE, total |-> Len(parsed.value) - 1 + rest.total]

\* IsActiveTank without the test of isActive
IsAnyTank(t) == TRUE

IsActiveTank(t) == t.isActive

IsClosedValve(v) == ~v.isOpen

\* what the call returns (raised when it throws instead of returning) and
\* work, the function's Sets and lists at its end
FlowResult(st, count) ==
    [ret |-> [raised |-> count.raised,
              segments |-> IF count.raised THEN <<>> ELSE st.segments,
              blockedSegments |-> IF count.raised THEN <<>> ELSE st.blockedSegments,
              totalSegments |-> count.total],
     work |-> st]

\* the call after the early return
FlowBody(tks, vlvs, pipes) ==
    FlowResult(TankLoop(FreshLocals,
                        buildPipelineGraph(pipes, CONNECT_DISTANCE),
                        SelectSeq(vlvs, IsClosedValve),
                        SelectSeq(tks, IsActiveTank), 1),
               CountSegments(pipes, 1))

\* FlowCall without the early return for no active tank
FlowCallNoEarlyReturn(tks, vlvs, pipes) == FlowBody(tks, vlvs, pipes)

\* calculateFlowPaths with the locals it ends with
FlowCall(tks, vlvs, pipes) ==
    IF Len(SelectSeq(tks, IsActiveTank)) = 0
    THEN [ret |-> [raised |-> FALSE, segments |-> <<>>, blockedSegments |-> <<>>,
                   totalSegments |-> 0],
          work |-> locals]
    ELSE FlowBody(tks, vlvs, pipes)

calculateFlowPaths(tks, vlvs, pipes) == FlowCall(tks, vlvs, pipes).ret

-----------------------------------------------------------------------------
(* Supply Distributor.  A flow is the exact rational num/den; capacities    *)
(* are multiples of 5, so capacity * 0.8 is the integer capacity * 4 / 5.   *)

Rat(n, d) == [num |-> n, den |-> d]

Zero == Rat(0, 1)

RAdd(a, b) == Rat(a.num * b.den + b.num * a.den, a.den * b.den)

\* Math.floor(a / k)
RFloorDiv(a, k) == a.num \div (a.den * k)

\* parseFloat((n / d).toFixed(0)), n / d >= 0
RoundDiv(n, d) == (2 * n + d) \div (2 * d)

\* findConnectedPipelines: the pipelines with a sub-segment closer than 15 m
\* to the valve; a parse error or an empty array skips the pipeline, an
\* invalid item skips the two sub-segments it ends
PipelineNear(valve, pipe) ==
    LET parsed == JsonParse(pipe.nodes)
        nodes == parsed.value
        valvePos == Pt(valve.latitude, valve.longitude)
    IN  /\ parsed.ok
        /\ \E i \in 1..(Len(nodes) - 1) :
              /\ IsWaypoint(nodes[i]) /\ IsWaypoint(nodes[i + 1])
              /\ LessThan(distanceToSegment(valvePos,
                                            Pt(nodes[i].lat, nodes[i].lng),
                                            Pt(nodes[i + 1].lat, nodes[i + 1].lng)),
                          VALVE_PIPE_DISTANCE)

\* findConnectedPipelines without the break: a pipeline is pushed once for
\* each of its sub-segments closer than 15 m
RECURSIVE findConnectedSegments(_, _)
findConnectedSegments(valve, pipes) ==
    IF pipes = <<>> THEN <<>>
    ELSE
      LET pipe == Head(pipes)
          nodes == JsonParse(pipe.nodes).value
          valvePos == Pt(valve.latitude, valve.longitude)
          near == {i \in 1..(Len(nodes) - 1) :
                     /\ IsWaypoint(nodes[i]) /\ IsWaypoint(nodes[i + 1])
                     /\ LessThan(distanceToSegment(valvePos,
                                                   Pt(nodes[i].lat, nodes[i].lng),
                                                   Pt(nodes[i + 1].lat, nodes[i + 1].lng)),
                                 VALVE_PIPE_DISTANCE)}
      IN  [i \in 1..Cardinality(near) |-> pipe]
          \o findConnectedSegments(valve, Tail(pipes))

findConnectedPipelines(valve, pipes) ==
    LET Near(pipe) == PipelineNear(valve, pipe)
    IN  SelectSeq(pipes, Near)

\* flowData.segments.some(s => s.pipelineId === pipe.id)
HasFlow(flowData, pipe) ==
    \E i \in 1..Len(flowData.segments) : flowData.segments[i].pipelineId = pipe.id

\* EstimateFlow without the test of node.valve.isOpen
EstimateFlowAnyState(valve, pipes, flowData) ==
    LET connected == findConnectedPipelines(valve, pipes)
        F[i \in 0..Len(connected)] ==
            IF i = 0 THEN 0
            ELSE F[i - 1] + (IF HasFlow(flowData, connected[i])
                             THEN connected[i].capacity * 4 ELSE 0)
    IN  Rat(F[Len(connected)], 5)

\* Estimate flow based on connected pipelines, capacity * 0.8 for each one
\* that has flow; a closed valve gets 0
EstimateFlow(valve, pipes, flowData) ==
    LET connected == findConnectedPipelines(valve, pipes)
        F[i \in 0..Len(connected)] ==
            IF i = 0 THEN 0
            ELSE F[i - 1] + (IF HasFlow(flowData, connected[i])
                             THEN connected[i].capacity * 4 ELSE 0)
    IN  IF valve.isOpen THEN Rat(F[Len(connected)], 5) ELSE Zero

HouseholdsOf(vs) == SumSeq([i \in 1..Len(vs) |-> vs[i].households])

\* DirectHouseholds without Math.max(0, ...)
DirectHouseholdsSigned(totalHouseholds, children) ==
    totalHouseholds - HouseholdsOf(children)

\* Math.max(0, node.totalHouseholds - subValvesTotal)
DirectHouseholds(totalHouseholds, children) ==
    Max2(0, totalHouseholds - HouseholdsOf(children))

IsMain(v) == v.category = "main"

IsSub(v) == v.category = "sub"

IsOpenValve(v) == v.isOpen

\* Build valve tree, direct households and estimated flow: one entry per main
\* valve, in the order of mainValves (valveId is the table's primary key)
BuildValveTree(vlvs, pipes, flowData) ==
    LET mainValves == SelectSeq(vlvs, IsMain)
        subValves == SelectSeq(vlvs, IsSub)
        Entry(valve) ==
            LET ChildOf(sv) == sv.parentValveId = valve.valveId
                children == SelectSeq(subValves, ChildOf)
            IN  [valve |-> valve,
                 children |-> children,
                 totalHouseholds |-> valve.households,
                 directHouseholds |-> DirectHouseholds(valve.households, children),
                 servedHouseholds |-> 0,
                 totalFlow |-> EstimateFlow(valve, pipes, flowData),
                 directFlow |-> Zero]
    IN  [i \in 1..Len(mainValves) |-> Entry(mainValves[i])]

\* childNode.totalFlow = child.households * flowPerHousehold, for each open
\* child that has an entry of its own in the valve tree
RECURSIVE GiveToChildren(_, _, _, _)
GiveToChildren(tree, openChildren, k, flowPerHousehold) ==
    IF k > Len(openChildren) THEN tree
    ELSE
      LET child == openChildren[k]
          share == Rat(child.households * flowPerHousehold.num, flowPerHousehold.den)
          given == [i \in 1..Len(tree) |->
                       IF tree[i].valve.valveId = child.valveId
                       THEN [tree[i] EXCEPT !.totalFlow = share]
                       ELSE tree[i]]
      IN  GiveToChildren(given, openChildren, k + 1, flowPerHousehold)

\* Math.min(totalOpenHouseholds, Math.floor(node.totalFlow / 10))
Served(totalOpenHouseholds, totalFlow) ==
    Min2(totalOpenHouseholds, RFloorDiv(totalFlow, HOUSEHOLD_RATE))

\* the second valveTree.forEach: acc is [tree, totalHouseholds,
\* servedHouseholds, totalFlow]
RECURSIVE Distribute(_, _)
Distribute(acc, k) ==
    IF k > Len(acc.tree) THEN acc
    ELSE
      LET node == acc.tree[k]
          openChildren == SelectSeq(node.children, IsOpenValve)
          totalOpenHouseholds == node.directHouseholds + HouseholdsOf(openChildren)
          gives == node.valve.isOpen /\ totalOpenHouseholds > 0
          served == Served(totalOpenHouseholds, node.totalFlow)
          flowPerHousehold == Rat(node.totalFlow.num,
                                  node.totalFlow.den * totalOpenHouseholds)
          own == IF gives
                 THEN [node EXCEPT !.servedHouseholds = served,
                                   !.directFlow = Rat(node.directHouseholds
                                                      * flowPerHousehold.num,
                                                      flowPerHousehold.den)]
                 ELSE node
          tree1 == [acc.tree EXCEPT ![k] = own]
          tree2 == IF gives
                   THEN GiveToChildren(tree1, openChildren, 1, flowPerHousehold)
                   ELSE tree1
      IN  Distribute([tree |-> tree2,
                      totalHouseholds |-> acc.totalHouseholds + node.totalHouseholds,
                      servedHouseholds |-> acc.servedHouseholds
                                           + (IF gives THEN served ELSE 0),
                      totalFlow |-> RAdd(acc.totalFlow, tree2[k].totalFlow)],
                     k + 1)

\* Build regions: one region per mandal in order of first appearance; only a
\* valve with an entry in the valve tree is listed and counted
\* BuildRegions adding the households of every valve to its region, with a
\* node in the valve tree or without
RECURSIVE BuildRegionsAllHouseholds(_, _, _, _)
BuildRegionsAllHouseholds(regions, vlvs, k, tree) ==
    IF k > Len(vlvs) THEN regions
    ELSE
      LET valve == vlvs[k]
          known == \E r \in 1..Len(regions) : regions[r].name = valve.mandal
          regs == IF known THEN regions
                  ELSE Append(regions, [name |-> valve.mandal, valves |-> <<>>,
                                        totalHouseholds |-> 0, servedHouseholds |-> 0,
                                        totalFlow |-> Zero])
          r == CHOOSE r \in 1..Len(regs) : regs[r].name = valve.mandal
          hasNode == \E i \in 1..Len(tree) : tree[i].valve.valveId = valve.valveId
          node == tree[CHOOSE i \in 1..Len(tree) : tree[i].valve.valveId = valve.valveId]
          counted == [regs EXCEPT ![r].totalHouseholds = @ + valve.households]
          listed == [counted EXCEPT
                       ![r].valves = Append(@, [valveId |-> valve.valveId,
                                                flow |-> node.totalFlow,
                                                households |-> valve.households,
                                                isOpen |-> valve.isOpen,
                                                servedHouseholds |-> node.servedHouseholds]),
                       ![r].servedHouseholds = @ + node.servedHouseholds,
                       ![r].totalFlow = RAdd(@, node.totalFlow)]
      IN  BuildRegionsAllHouseholds(IF hasNode THEN listed ELSE counted, vlvs,
                                    k + 1, tree)

RECURSIVE BuildRegions(_, _, _, _)
BuildRegions(regions, vlvs, k, tree) ==
    IF k > Len(vlvs) THEN regions
    ELSE
      LET valve == vlvs[k]
          known == \E r \in 1..Len(regions) : regions[r].name = valve.mandal
          regs == IF known THEN regions
                  ELSE Append(regions, [name |-> valve.mandal, valves |-> <<>>,
                                        totalHouseholds |-> 0, servedHouseholds |-> 0,
                                        totalFlow |-> Zero])
          r == CHOOSE r \in 1..Len(regs) : regs[r].name = valve.mandal
          hasNode == \E i \in 1..Len(tree) : tree[i].valve.valveId = valve.valveId
          node == tree[CHOOSE i \in 1..Len(tree) : tree[i].valve.valveId = valve.valveId]
          listed == [regs EXCEPT
                       ![r].valves = Append(@, [valveId |-> valve.valveId,
                                                flow |-> node.totalFlow,
                                                households |-> valve.households,
                                                isOpen |-> valve.isOpen,
                                                servedHouseholds |-> node.servedHouseholds]),
                       ![r].totalHouseholds = @ + valve.households,
                       ![r].servedHouseholds = @ + node.servedHouseholds,
                       ![r].totalFlow = RAdd(@, node.totalFlow)]
      IN  BuildRegions(IF hasNode THEN listed ELSE regs, vlvs, k + 1, tree)

\* (servedHouseholds / totalHouseholds) * 100 with toFixed(1), in tenths
Coverage(servedHouseholds, totalHouseholds) ==
    IF totalHouseholds > 0
    THEN RoundDiv(servedHouseholds * 1000, totalHouseholds)
    ELSE 0

\* totalFlow / servedHouseholds with toFixed(1), in tenths
AvgSupply(totalFlow, servedHouseholds) ==
    IF servedHouseholds > 0
    THEN RoundDiv(totalFlow.num * 10, totalFlow.den * servedHouseholds)
    ELSE 0

\* the returned object
Report(tks, vlvs, acc) ==
    [raised |-> FALSE,
     stats |-> [totalHouseholds |-> acc.totalHouseholds,
                servedHouseholds |-> acc.servedHouseholds,
                coverage |-> Coverage(acc.servedHouseholds, acc.totalHouseholds),
                totalFlow |-> RoundDiv(acc.totalFlow.num, acc.totalFlow.den),
                avgSupplyPerHousehold |-> AvgSupply(acc.totalFlow, acc.servedHouseholds),
                mainValves |-> Len(SelectSeq(vlvs, IsMain)),
                subValves |-> Len(SelectSeq(vlvs, IsSub)),
                activeTanks |-> Len(SelectSeq(tks, IsActiveTank))],
     regions |-> BuildRegions(<<>>, vlvs, 1, acc.tree),
     valveTree |-> acc.tree]

\* calculateSupplyOverview after its call of calculateFlowPaths, which
\* returned flowData or raised
OverviewOf(tks, vlvs, pipes, flowData) ==
    IF flowData.raised
    THEN [raised |-> TRUE, stats |-> <<>>, regions |-> <<>>, valveTree |-> <<>>]
    ELSE Report(tks, vlvs,
                Distribute([tree |-> BuildValveTree(vlvs, pipes, flowData),
                            totalHouseholds |-> 0, servedHouseholds |-> 0,
                            totalFlow |-> Zero], 1))

calculateSupplyOverview(tks, vlvs, pipes) ==
    OverviewOf(tks, vlvs, pipes, calculateFlowPaths(tks, vlvs, pipes))

-----------------------------------------------------------------------------
(* The two read handlers.  Each awaits three queries in turn (tanks,        *)
(* gate_valves, then the pipelines with active = 1) and calls the engine    *)
(* on what they returned.                                                   *)

\* rows.map(r => ({ ...r, isActive: r.isActive === 1 }))
MapTanks(rows) == [i \in 1..Len(rows) |-> [rows[i] EXCEPT !.isActive = (@ = 1)]]

\* rows.map(r => ({ ...r, isOpen: r.isOpen === 1 }))
MapValves(rows) == [i \in 1..Len(rows) |-> [rows[i] EXCEPT !.isOpen = (@ = 1)]]

\* SELECT * FROM pipelines WHERE active = 1
IsActiveRow(p) == p.active = 1

\* SELECT * FROM pipelines, without the WHERE clause
AllPipelines(rows) == rows

ActivePipelines(rows) == SelectSeq(rows, IsActiveRow)

Idle == [kind |-> "none", pc |-> "idle", tanks |-> <<>>, valves |-> <<>>]

NoCall == [called |-> FALSE, tanks |-> <<>>, valves |-> <<>>, pipelines |-> <<>>,
           ret |-> [raised |-> FALSE, segments |-> <<>>, blockedSegments |-> <<>>,
                    totalSegments |-> 0]]

\* flowCall is the last call of calculateFlowPaths, its arguments and what it
\* returned, and before, the call that preceded it
NoFlowCall == [called |-> FALSE, tanks |-> <<>>, valves |-> <<>>, pipelines |-> <<>>,
               ret |-> NoCall.ret, before |-> NoCall]

NoOverview == [called |-> FALSE, tanks |-> <<>>, valves |-> <<>>, pipelines |-> <<>>,
               ret |-> [raised |-> FALSE, stats |-> <<>>, regions |-> <<>>,
                        valveTree |-> <<>>]]

\* GET /api/flow/calculate arrives; the tanks query returns
GetFlowCalculate ==
    /\ req.kind = "none"
    /\ req' = [kind |-> "flow", pc |-> "valves", tanks |-> MapTanks(tanks),
               valves |-> <<>>]
    /\ UNCHANGED <<tanks, valves, pipelines, flowCall, overview, locals, toggle, history>>

\* GET /api/supply/overview arrives; the tanks query returns
GetSupplyOverview ==
    /\ req.kind = "none"
    /\ req' = [kind |-> "supply", pc |-> "valves", tanks |-> MapTanks(tanks),
               valves |-> <<>>]
    /\ UNCHANGED <<tanks, valves, pipelines, flowCall, overview, locals, toggle, history>>

\* the gate_valves query returns
ReadValves ==
    /\ req.pc = "valves"
    /\ req' = [req EXCEPT !.pc = "pipelines", !.valves = MapValves(valves)]
    /\ UNCHANGED <<tanks, valves, pipelines, flowCall, overview, locals, toggle, history>>

CallRecord(tks, vlvs, pipes, ret) ==
    [called |-> TRUE, tanks |-> tks, valves |-> vlvs, pipelines |-> pipes, ret |-> ret]

FlowRecord(tks, vlvs, pipes, ret) ==
    [called |-> TRUE, tanks |-> tks, valves |-> vlvs, pipelines |-> pipes, ret |-> ret,
     before |-> [called |-> flowCall.called, tanks |-> flowCall.tanks,
                 valves |-> flowCall.valves, pipelines |-> flowCall.pipelines,
                 ret |-> flowCall.ret]]

\* calculateFlowPaths(tanks, valves, pipelines); res.json(flowData)
AnswerFlow(pipes, call) ==
    /\ flowCall' = FlowRecord(req.tanks, req.valves, pipes, call.ret)
    /\ locals' = call.work
    /\ UNCHANGED overview

\* calculateSupplyOverview(tanks, valves, pipelines), which calls
\* calculateFlowPaths first; res.json(supplyOverview)
AnswerSupply(pipes, call) ==
    /\ flowCall' = FlowRecord(req.tanks, req.valves, pipes, call.ret)
    /\ locals' = call.work
    /\ overview' = CallRecord(req.tanks, req.valves, pipes,
                              OverviewOf(req.tanks, req.valves, pipes, call.ret))

\* the pipelines query of GET /api/flow/calculate returns
FlowRespond ==
    /\ req.kind = "flow" /\ req.pc = "pipelines"
    /\ AnswerFlow(ActivePipelines(pipelines),
                  FlowCall(req.tanks, req.valves, ActivePipelines(pipelines)))
    /\ req' = Idle
    /\ UNCHANGED <<tanks, valves, pipelines, toggle, history>>

\* the pipelines query of GET /api/supply/overview returns
SupplyRespond ==
    /\ req.kind = "supply" /\ req.pc = "pipelines"
    /\ AnswerSupply(ActivePipelines(pipelines),
                    FlowCall(req.tanks, req.valves, ActivePipelines(pipelines)))
    /\ req' = Idle
    /\ UNCHANGED <<tanks, valves, pipelines, toggle, history>>

\* the clients of PATCH /api/valve/:valveId/toggle
Clients == {"a", "b"}

\* no toggle request is in flight
NoToggle == [c \in Clients |-> [pc |-> "idle", valve |-> 0, isOpen |-> 0]]

Next ==
    \/ GetFlowCalculate
    \/ GetSupplyOverview
    \/ ReadValves
    \/ FlowRespond
    \/ SupplyRespond

-----------------------------------------------------------------------------
(* Inputs *)

MaxTanks == 2

TankRow(k, la, ln, act) ==
    [tankId |-> k, name |-> <<"tank", k>>, latitude |-> la, longitude |-> ln,
     isActive |-> act]

ValveRow(id, cat, parent, hh, mandal, la, ln, open) ==
    [valveId |-> id, name |-> <<"valve", id>>, category |-> cat,
     parentValveId |-> parent, households |-> hh, mandal |-> mandal,
     latitude |-> la, longitude |-> ln, isOpen |-> open]

PipelineRow(k, nodes, cap, act) ==
    [id |-> k, nodes |-> nodes, capacity |-> cap, active |-> act]

\* waypoints on and beside the line lat = 0..200, lng = 0
wA == Waypoint(0, 0)
wA2 == Waypoint(30, 0)
wB == Waypoint(100, 0)
wC == Waypoint(200, 0)
wD == Waypoint(100, 80)
wE == Waypoint(0, 40)
wF == Waypoint(100, 40)
wG == Waypoint(0, 80)
wH == Waypoint(60, 0)
wI == Waypoint(40, 0)

tABC == JsonArray(<<wA, wB, wC>>)
tAB == JsonArray(<<wA, wB>>)
tBC == JsonArray(<<wB, wC>>)
tADC == JsonArray(<<wA, wD, wC>>)
tEF == JsonArray(<<wE, wF>>)
tBAG == JsonArray(<<wB, wA, wG>>)

\* node data that snaps onto itself, and malformed node data
SnappedTexts == { JsonArray(<<wA, wA2, wB>>), JsonArray(<<wA, wB, wA2>>),
                  JsonArray(<<wC, wB, wA>>), JsonArray(<<wB, wC, BadItem>>),
                  JsonArray(<<wA, wH, wI>>), JsonArray(<<wH, wA, wI>>) }

MalformedTexts == { Garbage, JsonArray(<<>>), JsonArray(<<wA2>>),
                    JsonArray(<<wA, BadItem, wB>>) }

\* the pipelines table: rows of <<nodes, active>>
PipelineLists ==
    { <<<<t, 1>>>> : t \in {tABC, tAB, tADC, tEF, tBAG} \cup SnappedTexts \cup MalformedTexts }
    \cup { <<<<tABC, 1>>, <<tADC, 1>>>>, <<<<tAB, 1>>, <<tEF, 1>>>>,
           <<<<tEF, 1>>, <<tAB, 1>>>>, <<<<tAB, 1>>, <<tBC, 1>>>>,
           <<<<tABC, 1>>, <<tADC, 0>>>>, <<<<tABC, 0>>, <<tAB, 1>>>> }
    \cup { <<<<m, 1>>, <<tAB, 1>>>> : m \in MalformedTexts }
    \cup { <<<<tAB, 1>>, <<m, 1>>>> : m \in MalformedTexts }
    \cup { <<<<Garbage, 1>>, <<tABC, 1>>>>, <<<<tABC, 1>>, <<Garbage, 1>>>> }

\* tank positions and activity
TankChoiceSeq == << <<0, 0, 1>>, <<0, 0, 0>>, <<200, 0, 1>> >>

TankChoices == {TankChoiceSeq[i] : i \in DOMAIN TankChoiceSeq}

\* the tanks table: up to MaxTanks rows, each combination of choices in one
\* order of the rows
TankLists ==
    UNION { { [i \in 1..n |-> TankChoiceSeq[f[i]]] :
                f \in {g \in [1..n -> DOMAIN TankChoiceSeq] :
                          \A i, j \in 1..n : i <= j => g[i] <= g[j]} } :
            n \in 0..MaxTanks }

\* the gate_valves table: no valve, one main valve of 10 households on or
\* beside the sub-segment wB-wC, beyond its end, at its start or on wA-wB, or
\* two closed valves
ValveChoices ==
    { <<150, 0, 0>>, <<150, 2, 0>>, <<150, 3, 0>>, <<202, 0, 0>>, <<100, 0, 0>>,
      <<150, 0, 1>>, <<50, 0, 0>>, <<65, 0, 0>> }

ValveLists ==
    {<<>>} \cup { <<v>> : v \in ValveChoices }
    \cup { <<<<202, 0, 0>>, <<150, 2, 0>>>>, <<<<50, 0, 0>>, <<150, 0, 0>>>> }

Init ==
    /\ \E ts \in TankLists :
         tanks = [i \in 1..Len(ts) |-> TankRow(i, ts[i][1], ts[i][2], ts[i][3])]
    /\ \E vs \in ValveLists :
         valves = [i \in 1..Len(vs) |->
                      ValveRow(i, "main", 0, 10, "m", vs[i][1], vs[i][2], vs[i][3])]
    /\ \E ps \in PipelineLists :
         pipelines = [i \in 1..Len(ps) |-> PipelineRow(i, ps[i][1], 500, ps[i][2])]
    /\ req = Idle
    /\ flowCall = NoFlowCall
    /\ overview = NoOverview
    /\ locals = NoLocals
    /\ toggle = NoToggle
    /\ history = <<<<tanks, valves, pipelines>>>>

Spec == Init /\ [][Next]_vars

\* inputs for the graph builder and the order of the tanks: every pipeline
\* list, the tanks, and no valve, a closed valve on wB-wC, or closed valves
\* on wA-wB and wB-wC
GraphValveLists == { <<>>, <<<<150, 0, 0>>>>, <<<<50, 0, 0>>, <<150, 0, 0>>>> }

InitGraph ==
    /\ \E ts \in TankLists :
         tanks = [i \in 1..Len(ts) |-> TankRow(i, ts[i][1], ts[i][2], ts[i][3])]
    /\ \E vs \in GraphValveLists :
         valves = [i \in 1..Len(vs) |->
                      ValveRow(i, "main", 0, 10, "m", vs[i][1], vs[i][2], vs[i][3])]
    /\ \E ps \in PipelineLists :
         pipelines = [i \in 1..Len(ps) |-> PipelineRow(i, ps[i][1], 500, ps[i][2])]
    /\ req = Idle
    /\ flowCall = NoFlowCall
    /\ overview = NoOverview
    /\ locals = NoLocals
    /\ toggle = NoToggle
    /\ history = <<<<tanks, valves, pipelines>>>>

SpecGraph == InitGraph /\ [][Next]_vars

\* a valve tree of one or two main valves and up to two sub valves, one of
\* them possibly naming a parent that does not exist, beside the pipelines
\* wA-wB-wC (capacity 500 or 625) and wB-wD (capacity 250)
tBD == JsonArray(<<wB, wD>>)

SupplyMainChoices ==
    { <<"main", 0, hh, "A", la, 10, op>> : hh \in {0, 10, 100}, la \in {50, 95},
                                            op \in {0, 1} }

SupplyFirstSubLists ==
    {<<>>} \cup { <<<<"sub", par, 40, "A", 150, 2, op>>>> : par \in {1, 9}, op \in {0, 1} }

SupplySecondSubLists == { <<>>, <<<<"sub", 1, 70, "A", 150, 20, 1>>>> }

SupplySecondMainLists == { <<>>, <<<<"main", 0, 30, "B", 150, 10, 1>>>> }

SupplyValveLists ==
    { <<m>> \o s1 \o s2 \o m2 : m \in SupplyMainChoices, s1 \in SupplyFirstSubLists,
                                s2 \in SupplySecondSubLists, m2 \in SupplySecondMainLists }

SupplyPipelineLists ==
    { <<<<tABC, 500>>>>, <<<<tABC, 500>>, <<tBD, 251>>>>, <<<<tBD, 250>>>>,
      <<<<tABC, 625>>>> }

SupplyTankLists == { <<>>, <<<<0, 0, 1>>>>, <<<<0, 0, 0>>>>, <<<<200, 0, 1>>>> }

InitSupply ==
    /\ \E ts \in SupplyTankLists :
         tanks = [i \in 1..Len(ts) |-> TankRow(i, ts[i][1], ts[i][2], ts[i][3])]
    /\ \E vs \in SupplyValveLists :
         valves = [i \in 1..Len(vs) |->
                      ValveRow(i, vs[i][1], vs[i][2], vs[i][3], vs[i][4], vs[i][5],
                               vs[i][6], vs[i][7])]
    /\ \E ps \in SupplyPipelineLists :
         pipelines = [i \in 1..Len(ps) |-> PipelineRow(i, ps[i][1], ps[i][2], 1)]
    /\ req = Idle
    /\ flowCall = NoFlowCall
    /\ overview = NoOverview
    /\ locals = NoLocals
    /\ toggle = NoToggle
    /\ history = <<<<tanks, valves, pipelines>>>>

SpecSupply == InitSupply /\ [][Next]_vars

-----------------------------------------------------------------------------
(* Write requests.  Each db.run is one step; the toggle reads the valve's   *)
(* row with db.get and writes in the callback, two steps.  history is the   *)
(* sequence of the states the three tables have been in.                    *)

MaxWrites == 2

\* a db.run that leaves the tables as tks, vlvs, pipes
WriteDb(tks, vlvs, pipes) ==
    /\ Len(history) <= MaxWrites
    /\ tanks' = tks
    /\ valves' = vlvs
    /\ pipelines' = pipes
    /\ history' = Append(history, <<tks, vlvs, pipes>>)

\* PUT /api/tank/:tankId with isActive in the body, the flag changing
PutTank ==
    /\ \E i \in DOMAIN tanks :
          WriteDb([tanks EXCEPT ![i].isActive = 1 - @], valves, pipelines)
    /\ UNCHANGED <<req, flowCall, overview, locals, toggle>>

\* DELETE /api/pipeline/:id of an active pipeline: UPDATE pipelines SET
\* active = 0
DeletePipeline ==
    /\ \E i \in DOMAIN pipelines :
          /\ pipelines[i].active = 1
          /\ WriteDb(tanks, valves, [pipelines EXCEPT ![i].active = 0])
    /\ UNCHANGED <<req, flowCall, overview, locals, toggle>>

\* PUT /api/pipeline/:id of a deleted pipeline with active: true in the body
PutPipeline ==
    /\ \E i \in DOMAIN pipelines :
          /\ pipelines[i].active = 0
          /\ WriteDb(tanks, valves, [pipelines EXCEPT ![i].active = 1])
    /\ UNCHANGED <<req, flowCall, overview, locals, toggle>>

\* PATCH /api/valve/:valveId/toggle: db.get returns the valve's row
ToggleRead ==
    /\ \E c \in Clients : \E i \in DOMAIN valves :
          /\ toggle[c].pc = "idle"
          /\ toggle' = [toggle EXCEPT ![c] = [pc |-> "write", valve |-> i,
                                              isOpen |-> valves[i].isOpen]]
    /\ UNCHANGED <<tanks, valves, pipelines, req, flowCall, overview, locals, history>>

\* newState = row.isOpen === 1 ? 0 : 1; UPDATE gate_valves SET isOpen = newState
ToggleWrite ==
    /\ \E c \in Clients :
          /\ toggle[c].pc = "write"
          /\ WriteDb(tanks,
                     [valves EXCEPT ![toggle[c].valve].isOpen =
                                       IF toggle[c].isOpen = 1 THEN 0 ELSE 1],
                     pipelines)
          /\ toggle' = [toggle EXCEPT ![c] = NoToggle[c]]
    /\ UNCHANGED <<req, flowCall, overview, locals>>

NextWrites ==
    \/ Next
    \/ PutTank
    \/ DeletePipeline
    \/ PutPipeline
    \/ ToggleRead
    \/ ToggleWrite

\* one tank at wA, one main valve on wB-wC, two pipelines, all active
WritesPipelineLists == { <<tAB, tBC>> }

InitWrites ==
    /\ tanks = <<TankRow(1, 0, 0, 1)>>
    /\ valves = <<ValveRow(1, "main", 0, 10, "m", 150, 0, 1)>>
    /\ \E ps \in WritesPipelineLists :
         pipelines = [i \in 1..Len(ps) |-> PipelineRow(i, ps[i], 500, 1)]
    /\ req = Idle
    /\ flowCall = NoFlowCall
    /\ overview = NoOverview
    /\ locals = NoLocals
    /\ toggle = NoToggle
    /\ history = <<<<tanks, valves, pipelines>>>>

SpecWrites == InitWrites /\ [][NextWrites]_vars

-----------------------------------------------------------------------------
(* What the claims speak of: the last call of calculateFlowPaths, the graph *)
(* of its pipelines, the seeds of its active tanks.                         *)

Range(f) == {f[i] : i \in DOMAIN f}

Returned == flowCall.called /\ ~flowCall.ret.raised

CallGraph == buildPipelineGraph(flowCall.pipelines, CONNECT_DISTANCE)

ActiveTankSet == {t \in Range(flowCall.tanks) : t.isActive}

ClosedValveSet == {v \in Range(flowCall.valves) : ~v.isOpen}

PosOf(graph, key) == NodeGet(graph, key).position

\* the unordered pair of node keys of a graph edge, of a reported segment
EdgePair(edge) == {edge.from, edge.to}

SegmentPair(seg) ==
    {getNodeKey(seg.start.lat, seg.start.lng), getNodeKey(seg.end.lat, seg.end.lng)}

FlowingPairs == {SegmentPair(seg) : seg \in Range(flowCall.ret.segments)}

BlockedPairs == {SegmentPair(seg) : seg \in Range(flowCall.ret.blockedSegments)}

\* the nodes closer than 50 m to an active tank
SeedKeys(graph) ==
    {n.key : n \in {n \in Range(graph.nodes) :
        \E t \in ActiveTankSet :
            (t.latitude - n.position.lat) * (t.latitude - n.position.lat)
            + (t.longitude - n.position.lng) * (t.longitude - n.position.lng) < 2500}}

\* the nodes joined to R by edges other than those of the node pair without
RECURSIVE ReachWithout(_, _, _)
ReachWithout(R, edges, without) ==
    LET usable == {e \in edges : EdgePair(e) # without}
        new == {e.to : e \in {e \in usable : e.from \in R}}
               \cup {e.from : e \in {e \in usable : e.to \in R}}
    IN  IF new \subseteq R THEN R ELSE ReachWithout(R \cup new, edges, without)

\* edge e lies beyond the node pair S: without S no seed reaches either end
Beyond(graph, e, S) ==
    LET R == ReachWithout(SeedKeys(graph), Range(graph.edges), S)
    IN  e.from \notin R /\ e.to \notin R

\* a closed valve whose projection on the line from a to b falls within the
\* segment, closer than 3 m to it
ProjectsWithin3m(v, a, b) ==
    LET dot == (v.latitude - a.lat) * (b.lat - a.lat)
               + (v.longitude - a.lng) * (b.lng - a.lng)
        lenSq == (b.lat - a.lat) * (b.lat - a.lat) + (b.lng - a.lng) * (b.lng - a.lng)
        offSq == (v.latitude - a.lat) * (v.latitude - a.lat)
                 + (v.longitude - a.lng) * (v.longitude - a.lng)
    IN  lenSq > 0 /\ 0 <= dot /\ dot <= lenSq /\ offSq * lenSq - dot * dot < 9 * lenSq

\* a closed valve closer than 3 m to the segment from a to b, the closest
\* point clamped to the segment
Within3m(v, a, b) ==
    LessThan(distanceToSegment(Pt(v.latitude, v.longitude), a, b), 3)

C2_OneClassificationPerSegment ==
    flowCall.called =>
      LET pairs == [i \in 1..Len(flowCall.ret.segments) |->
                       SegmentPair(flowCall.ret.segments[i])]
                   \o [i \in 1..Len(flowCall.ret.blockedSegments) |->
                          SegmentPair(flowCall.ret.blockedSegments[i])]
      IN  \A i, j \in 1..Len(pairs) : i # j => pairs[i] # pairs[j]

\* a call on a cycle of edges, one of them blocked and met from both ends
C2_Witness ==
    /\ Returned
    /\ Len(flowCall.ret.blockedSegments) = 1
    /\ Len(flowCall.ret.segments) = 3
    /\ Len(CallGraph.edges) = 4

-----------------------------------------------------------------------------
(* The last call of calculateSupplyOverview *)

OverviewReturned == overview.called /\ ~overview.ret.raised

\* the households of the sub valves that name the valve id as their parent
ChildrenSum(vlvs, id) ==
    SumSeq([i \in 1..Len(vlvs) |->
               IF vlvs[i].category = "sub" /\ vlvs[i].parentValveId = id
               THEN vlvs[i].households ELSE 0])

\* C3.  Coverage bound: stats.coverage (in tenths of a percent) lies between
\* 0 and 100 percent, that is stats.servedHouseholds <= stats.totalHouseholds.
C3_CoverageBound ==
    OverviewReturned =>
      /\ 0 <= overview.ret.stats.coverage
      /\ overview.ret.stats.coverage <= 1000
      /\ overview.ret.stats.servedHouseholds <= overview.ret.stats.totalHouseholds

\* C4.  Every main valve has an entry in the returned valve tree, and its
\* directHouseholds is max(0, households - sum of its sub valves' households),
\* so never negative.
C4_DirectHouseholds ==
    OverviewReturned =>
      /\ \A v \in Range(overview.valves) :
            v.category = "main"
            => \E node \in Range(overview.ret.valveTree) : node.valve = v
      /\ \A node \in Range(overview.ret.valveTree) :
            /\ node.valve.category = "main"
            /\ node.directHouseholds >= 0
            /\ node.directHouseholds
               = Max2(0, node.valve.households
                         - ChildrenSum(overview.valves, node.valve.valveId))

\* an overview with a main valve whose sub valves count more households than
\* it states itself
C4_Witness ==
    /\ OverviewReturned
    /\ \E node \in Range(overview.ret.valveTree) :
          /\ ChildrenSum(overview.valves, node.valve.valveId) > node.valve.households
          /\ node.valve.households > 0
          /\ node.directHouseholds = 0

-----------------------------------------------------------------------------
(* Two calls in succession *)

SameSnapshot ==
    /\ flowCall.called /\ flowCall.before.called
    /\ flowCall.tanks = flowCall.before.tanks
    /\ flowCall.valves = flowCall.before.valves
    /\ flowCall.pipelines = flowCall.before.pipelines

-----------------------------------------------------------------------------
(* No active tank, the total, malformed node data *)

Parses(p) == JsonParse(p.nodes).ok

\* the number of valid waypoints of a pipeline, 0 when its nodes do not parse
ValidWaypoints(p) ==
    LET items == JsonParse(p.nodes).value
    IN  Cardinality({i \in 1..Len(items) : items[i].valid})

Malformed(p) == ~Parses(p) \/ ValidWaypoints(p) < 2

\* the sum of nodes.length - 1 over pipelines that all parse
SumOfLengths(pipes) ==
    SumSeq([i \in 1..Len(pipes) |-> Len(JsonParse(pipes[i].nodes).value) - 1])

\* C6.  With no active tank the call returns, raising nothing, an empty
\* flowing list and an empty blocked list, whatever the pipelines and valves.
C6_NoActiveTank ==
    (flowCall.called /\ ActiveTankSet = {})
    => /\ ~flowCall.ret.raised
       /\ flowCall.ret.segments = <<>>
       /\ flowCall.ret.blockedSegments = <<>>

\* a call with tanks, none of them active, and a pipeline whose nodes do not
\* parse
C6_Witness ==
    /\ flowCall.called
    /\ flowCall.tanks # <<>>
    /\ ActiveTankSet = {}
    /\ \E p \in Range(flowCall.pipelines) : ~Parses(p)
    /\ ~flowCall.ret.raised
    /\ flowCall.ret.segments = <<>>

Without(pipes, k) == SubSeq(pipes, 1, k - 1) \o SubSeq(pipes, k + 1, Len(pipes))

\* C8.  Graceful degradation: with an active tank and one malformed pipeline
\* (nodes that do not parse, or fewer than 2 valid waypoints) the call
\* returns, raising nothing, and classifies the segments as it does when the
\* malformed pipeline is absent.
C8_GracefulDegradation ==
    (flowCall.called /\ ActiveTankSet # {})
    => \A k \in 1..Len(flowCall.pipelines) :
          (/\ Malformed(flowCall.pipelines[k])
           /\ \A j \in 1..Len(flowCall.pipelines) :
                 j # k => ~Malformed(flowCall.pipelines[j]))
          => /\ ~flowCall.ret.raised
             /\ flowCall.ret.segments
                = calculateFlowPaths(flowCall.tanks, flowCall.valves,
                                     Without(flowCall.pipelines, k)).segments
             /\ flowCall.ret.blockedSegments
                = calculateFlowPaths(flowCall.tanks, flowCall.valves,
                                     Without(flowCall.pipelines, k)).blockedSegments

-----------------------------------------------------------------------------
(* The blocking rule, Scenario A *)

ScenarioA ==
    /\ Returned
    /\ Len(flowCall.tanks) = 1 /\ flowCall.tanks[1].isActive
    /\ ClosedValveSet = {}
    /\ Len(flowCall.pipelines) = 1
    /\ Parses(flowCall.pipelines[1])
    /\ Len(JsonParse(flowCall.pipelines[1].nodes).value) = 3
    /\ ValidWaypoints(flowCall.pipelines[1]) = 3
    /\ \E w \in Range(JsonParse(flowCall.pipelines[1].nodes).value) :
          LessThan(haversineDistance(Pt(flowCall.tanks[1].latitude,
                                        flowCall.tanks[1].longitude),
                                     Pt(w.lat, w.lng)),
                   CONNECT_DISTANCE)

\* the three waypoints lie 50 m or more from one another
WaypointsApart ==
    LET w == JsonParse(flowCall.pipelines[1].nodes).value
    IN  \A i, j \in 1..Len(w) :
          i # j => ~LessThan(haversineDistance(Pt(w[i].lat, w[i].lng),
                                               Pt(w[j].lat, w[j].lng)),
                             CONNECT_DISTANCE)

\* both sub-segments flowing, none blocked, totalSegments = 2
BothFlowing ==
    LET w == JsonParse(flowCall.pipelines[1].nodes).value
    IN  /\ Len(flowCall.ret.segments) = 2
        /\ FlowingPairs = { {getNodeKey(w[1].lat, w[1].lng), getNodeKey(w[2].lat, w[2].lng)},
                            {getNodeKey(w[2].lat, w[2].lng), getNodeKey(w[3].lat, w[3].lng)} }
        /\ flowCall.ret.blockedSegments = <<>>
        /\ flowCall.ret.totalSegments = 2

\* C10 as amended.  Scenario A generalised: when the three waypoints lie at
\* least the connect distance (50 m) from one another, both sub-segments are
\* flowing, none is blocked and totalSegments = 2.
C10_ScenarioA ==
    (ScenarioA /\ WaypointsApart) => BothFlowing

\* C10 as stated: the same for any three waypoints.
C10_Original ==
    ScenarioA
    => /\ Len(flowCall.ret.segments) = 2
       /\ flowCall.ret.blockedSegments = <<>>
       /\ flowCall.ret.totalSegments = 2

\* Scenario A with the tank at the middle waypoint of the pipeline
C10_Witness ==
    /\ ScenarioA /\ WaypointsApart
    /\ LessThan(haversineDistance(Pt(flowCall.tanks[1].latitude,
                                     flowCall.tanks[1].longitude),
                                  Pt(JsonParse(flowCall.pipelines[1].nodes).value[2].lat,
                                     JsonParse(flowCall.pipelines[1].nodes).value[2].lng)),
                CONNECT_DISTANCE)
    /\ BothFlowing

-----------------------------------------------------------------------------
(* Scenario B *)

\* one tank, active, at the first of the three valid waypoints of the one
\* pipeline, and one closed valve, at the midpoint of the second sub-segment
ScenarioB ==
    /\ Returned
    /\ Len(flowCall.tanks) = 1 /\ flowCall.tanks[1].isActive
    /\ Len(flowCall.pipelines) = 1
    /\ Parses(flowCall.pipelines[1])
    /\ Len(JsonParse(flowCall.pipelines[1].nodes).value) = 3
    /\ ValidWaypoints(flowCall.pipelines[1]) = 3
    /\ LET w == JsonParse(flowCall.pipelines[1].nodes).value
       IN  /\ flowCall.tanks[1].latitude = w[1].lat
           /\ flowCall.tanks[1].longitude = w[1].lng
           /\ Cardinality(ClosedValveSet) = 1
           /\ \A v \in ClosedValveSet :
                 /\ 2 * v.latitude = w[2].lat + w[3].lat
                 /\ 2 * v.longitude = w[2].lng + w[3].lng

\* the closed valve does not reach the first sub-segment
ValveClearOfFirst ==
    LET w == JsonParse(flowCall.pipelines[1].nodes).value
    IN  \A v \in ClosedValveSet :
          ~ProjectsWithin3m(v, Pt(w[1].lat, w[1].lng), Pt(w[2].lat, w[2].lng))

\* the first sub-segment alone is flowing, the second alone blocked
FirstFlowingSecondBlocked ==
    LET w == JsonParse(flowCall.pipelines[1].nodes).value
    IN  /\ Len(flowCall.ret.segments) = 1
        /\ FlowingPairs = { {getNodeKey(w[1].lat, w[1].lng), getNodeKey(w[2].lat, w[2].lng)} }
        /\ Len(flowCall.ret.blockedSegments) = 1
        /\ BlockedPairs = { {getNodeKey(w[2].lat, w[2].lng), getNodeKey(w[3].lat, w[3].lng)} }

\* C11 as amended.  Scenario B: when the three waypoints lie 50 m or more
\* from one another and the valve at the midpoint of the second sub-segment
\* does not project within 3 m of the first, the first sub-segment is
\* flowing, the second blocked, and the blocked list has length 1.
C11_ScenarioB ==
    (ScenarioB /\ WaypointsApart /\ ValveClearOfFirst) => FirstFlowingSecondBlocked

\* C11 as stated: the same for any three waypoints.
C11_Original ==
    ScenarioB
    => /\ Len(flowCall.ret.segments) >= 1
       /\ Len(flowCall.ret.blockedSegments) = 1

\* Scenario B on waypoints that keep apart
C11_Witness ==
    /\ ScenarioB /\ WaypointsApart /\ ValveClearOfFirst
    /\ FirstFlowingSecondBlocked

-----------------------------------------------------------------------------
(* The served-household rule and the split of a main valve's flow *)

SameRat(a, b) == a.num * b.den = b.num * a.den

\* directHouseholds plus the households of the open children
OpenHouseholds(node) ==
    node.directHouseholds
    + SumSeq([i \in 1..Len(node.children) |->
                 IF node.children[i].isOpen THEN node.children[i].households ELSE 0])

\* an open main valve with open households
Distributes(node) == node.valve.isOpen /\ OpenHouseholds(node) > 0

\* the totalFlow the valve tree reports for a valve, zero when it has no entry
ReportedFlow(tree, valve) ==
    IF \E i \in 1..Len(tree) : tree[i].valve.valveId = valve.valveId
    THEN tree[CHOOSE i \in 1..Len(tree) : tree[i].valve.valveId = valve.valveId].totalFlow
    ELSE Zero

\* the sum of the flows reported for the open children of a node
RECURSIVE ChildShares(_, _, _)
ChildShares(tree, children, k) ==
    IF k > Len(children) THEN Zero
    ELSE RAdd(IF children[k].isOpen THEN ReportedFlow(tree, children[k]) ELSE Zero,
              ChildShares(tree, children, k + 1))

\* servedHouseholds = min(openHouseholds, floor(totalFlow / 10)) and the
\* direct share is directHouseholds x totalFlow / openHouseholds
ServedAndDirectShare(node) ==
    /\ node.servedHouseholds
       = Min2(OpenHouseholds(node), node.totalFlow.num \div (node.totalFlow.den * 10))
    /\ SameRat(node.directFlow,
               Rat(node.directHouseholds * node.totalFlow.num,
                   node.totalFlow.den * OpenHouseholds(node)))

\* C12.  Served-household rule: every open main valve with open households
\* serves min(openHouseholds, floor(totalFlow / 10)) households, its direct
\* share is proportional to its direct households, and the direct share plus
\* the shares reported for its open children equals its totalFlow.
C12_ServedRule ==
    OverviewReturned =>
      \A node \in Range(overview.ret.valveTree) :
        Distributes(node)
        => /\ ServedAndDirectShare(node)
           /\ SameRat(RAdd(node.directFlow,
                           ChildShares(overview.ret.valveTree, node.children, 1)),
                      node.totalFlow)

-----------------------------------------------------------------------------
(* Sub valves without a parent *)

\* a sub valve whose parentValveId names no valve of the call
Dangling(v) ==
    /\ v.category = "sub"
    /\ ~\E p \in Range(overview.valves) : p.valveId = v.parentValveId

\* the valve is listed in the region of its mandal
ListedInRegion(v) ==
    \E region \in Range(overview.ret.regions) :
       /\ region.name = v.mandal
       /\ \E entry \in Range(region.valves) : entry.valveId = v.valveId

\* C13.  A sub valve whose parentValveId references no existing valve is in
\* no children list of the valve tree and is listed in the valves of its
\* region, its households counted in the region's totalHouseholds.
C13_DanglingSubValve ==
    OverviewReturned =>
      \A v \in Range(overview.valves) :
        Dangling(v)
        => /\ \A node \in Range(overview.ret.valveTree) :
                 \A c \in Range(node.children) : c.valveId # v.valveId
           /\ ListedInRegion(v)

-----------------------------------------------------------------------------
(* Soft-deleted pipelines *)

\* a response is sent in this step
Responds == req.pc = "pipelines" /\ req'.pc = "idle"

NotDeleted(p) == p.active # 0

\* the capacity of the pipelines, among pipes, that pass the valve
NearbyCapacity(valve, pipes) ==
    SumSeq([i \in 1..Len(pipes) |->
               IF PipelineNear(valve, pipes[i]) THEN pipes[i].capacity ELSE 0])

\* the response holds nothing of the pipeline: no flowing or blocked segment
\* of it, no sub-segment of it in the total, no flow from it at any valve
NoTraceOf(p, flow, report) ==
    /\ \A seg \in Range(flow.segments) \cup Range(flow.blockedSegments) :
          seg.pipelineId # p.id
    /\ flow.totalSegments \in {0, SumOfLengths(SelectSeq(pipelines, NotDeleted))}
    /\ ~report.raised
       => \A node \in Range(report.valveTree) :
             5 * node.totalFlow.num
             <= 4 * node.totalFlow.den
                * NearbyCapacity(node.valve, SelectSeq(pipelines, NotDeleted))

\* C14.  Soft delete: a response of GET /api/flow/calculate or GET
\* /api/supply/overview sent while a pipeline's active flag is 0 holds no
\* flowing or blocked segment of that pipeline, does not count its
\* sub-segments in totalSegments and attributes no flow from it to a valve.
C14_SoftDelete ==
    [][Responds =>
         \A i \in DOMAIN pipelines :
            pipelines[i].active = 0
            => NoTraceOf(pipelines[i], flowCall'.ret,
                         IF req.kind = "supply" THEN overview'.ret ELSE NoOverview.ret)]_vars

\* the second pipeline was flowing and feeding the valve, was deleted, and
\* the overview sent after that holds the first pipeline alone
C14_Witness ==
    /\ pipelines[1].active = 1 /\ pipelines[2].active = 0
    /\ flowCall.called /\ flowCall.before.called
    /\ \E seg \in Range(flowCall.before.ret.segments) : seg.pipelineId = 2
    /\ Len(flowCall.pipelines) = 1
    /\ Len(flowCall.ret.segments) = 1
    /\ flowCall.ret.totalSegments = 1
    /\ overview.called /\ overview.pipelines = flowCall.pipelines
    /\ overview.valves = flowCall.valves
    /\ \E node \in Range(overview.ret.valveTree) :
          node.valve.isOpen /\ node.totalFlow.num = 0

-----------------------------------------------------------------------------
(* Snapshots *)

\* the arguments of the call are what the three queries return in the state
\* db of the tables
SnapshotOf(call, db) ==
    /\ call.tanks = [i \in 1..Len(db[1]) |-> [db[1][i] EXCEPT !.isActive = (@ = 1)]]
    /\ call.valves = [i \in 1..Len(db[2]) |-> [db[2][i] EXCEPT !.isOpen = (@ = 1)]]
    /\ call.pipelines = SelectSeq(db[3], NotDeleted)

\* C15.  Consistent snapshot: the tanks, valves and pipelines a read handler
\* passes to the core together are those of one single state the database
\* has been in, whatever writes are processed between the handler's reads.
C15_ConsistentSnapshot ==
    /\ flowCall.called => \E k \in DOMAIN history : SnapshotOf(flowCall, history[k])
    /\ overview.called => \E k \in DOMAIN history : SnapshotOf(overview, history[k])

-----------------------------------------------------------------------------
(* Ratios *)

\* the guards of the three ratios: each is 0, and not computed, when its
\* denominator is 0, and no ratio has a zero denominator
RatiosGuarded(report) ==
    /\ report.stats.totalHouseholds = 0 => report.stats.coverage = 0
    /\ report.stats.servedHouseholds = 0 => report.stats.avgSupplyPerHousehold = 0
    /\ \A node \in Range(report.valveTree) :
          /\ OpenHouseholds(node) = 0
             => node.directFlow = Zero /\ node.servedHouseholds = 0
          /\ node.directFlow.den # 0
          /\ node.totalFlow.den # 0

\* C16.  Every ratio of calculateSupplyOverview is guarded (coverage 0 when
\* totalHouseholds is 0, avgSupplyPerHousehold 0 when servedHouseholds is 0,
\* no flow per household for a valve without open households), and no input
\* makes the function divide by zero or raise.
C16_RatioGuards ==
    overview.called => ~overview.ret.raised /\ RatiosGuarded(overview.ret)

-----------------------------------------------------------------------------
(* The share of a child *)

\* child.households x (parent.totalFlow / openHouseholds)
ChildShare(node, child) ==
    Rat(child.households * node.totalFlow.num,
        node.totalFlow.den * OpenHouseholds(node))

\* C17.  Parent distribution wins: every open sub-valve child of an open main
\* valve with open households has its reported totalFlow equal to
\* child.households x (parent.totalFlow / openHouseholds).
C17_ParentDistributionWins ==
    OverviewReturned =>
      \A node \in Range(overview.ret.valveTree) :
        Distributes(node)
        => \A child \in Range(node.children) :
              child.isOpen
              => SameRat(ReportedFlow(overview.ret.valveTree, child),
                         ChildShare(node, child))

-----------------------------------------------------------------------------
(* Closed main valves *)

\* the households of all main valves of the call, open or closed
MainHouseholds == HouseholdsOf(SelectSeq(overview.valves, IsMain))

\* an active pipeline of the call that carries flow and passes the valve
NearFlowingPipeline(valve) ==
    /\ flowCall.called /\ ~flowCall.ret.raised
    /\ flowCall.tanks = overview.tanks
    /\ flowCall.valves = overview.valves
    /\ flowCall.pipelines = overview.pipelines
    /\ \E pipe \in Range(overview.pipelines) :
          PipelineNear(valve, pipe) /\ HasFlow(flowCall.ret, pipe)

\* C18.  A closed main valve has totalFlow 0 and servedHouseholds 0 in the
\* valve tree, whatever pipelines flow nearby and whatever the state of its
\* children, and its households still count in stats.totalHouseholds.
C18_ClosedMainValve ==
    OverviewReturned =>
      /\ overview.ret.stats.totalHouseholds = MainHouseholds
      /\ \A v \in Range(overview.valves) :
            IsMain(v) /\ ~v.isOpen
            => /\ \E node \in Range(overview.ret.valveTree) : node.valve = v
               /\ \A node \in Range(overview.ret.valveTree) :
                     node.valve = v
                     => node.totalFlow.num = 0 /\ node.servedHouseholds = 0

\* a closed main valve with households, beside a flowing pipeline, with an
\* open child
C18_Witness ==
    /\ OverviewReturned
    /\ \E node \in Range(overview.ret.valveTree) :
          /\ ~node.valve.isOpen
          /\ node.valve.households > 0
          /\ NearFlowingPipeline(node.valve)
          /\ \E child \in Range(node.children) : child.isOpen
          /\ overview.ret.stats.totalHouseholds >= node.valve.households

-----------------------------------------------------------------------------
(* Snapping *)

\* the valid waypoints of pipes[k..], in the order buildPipelineGraph meets them
RECURSIVE WaypointsOf(_, _)
WaypointsOf(pipes, k) ==
    IF k > Len(pipes) THEN <<>>
    ELSE SelectSeq(JsonParse(pipes[k].nodes).value, IsWaypoint)
         \o WaypointsOf(pipes, k + 1)

\* the waypoint is closer than connectDistance to the position
Snaps(w, position) ==
    (w.lat - position.lat) * (w.lat - position.lat)
    + (w.lng - position.lng) * (w.lng - position.lng)
    < CONNECT_DISTANCE * CONNECT_DISTANCE

\* the nodes after one more waypoint: unchanged when some node is within
\* reach, else one more node, keyed and positioned at the waypoint
NodesWith(before, w) ==
    IF \E i \in 1..Len(before) : Snaps(w, before[i].position)
    THEN before
    ELSE Append(before, [key |-> <<w.lat, w.lng>>, position |-> Pt(w.lat, w.lng)])

RECURSIVE NodesAfter(_, _)
NodesAfter(ws, k) ==
    IF k = 0 THEN <<>> ELSE NodesWith(NodesAfter(ws, k - 1), ws[k])

\* the indices of the nodes within reach of the waypoint
NodesInReach(graph, w) ==
    {i \in 1..Len(graph.nodes) : Snaps(w, graph.nodes[i].position)}

\* the key of the first node, in insertion order, within reach of the waypoint
FirstInReach(graph, w) == graph.nodes[Min(NodesInReach(graph, w))].key

\* the edges between the nodes that consecutive valid waypoints are assigned to
SnappedEdges(graph, pipes) ==
    {[from |-> FirstInReach(graph, JsonParse(p.nodes).value[i]),
      to |-> FirstInReach(graph, JsonParse(p.nodes).value[i + 1]),
      pipelineId |-> p.id] :
        <<p, i>> \in {<<q, j>> \in UNION {{r} \X DOMAIN JsonParse(r.nodes).value :
                                                r \in Range(pipes)} :
                         /\ j < Len(JsonParse(q.nodes).value)
                         /\ IsWaypoint(JsonParse(q.nodes).value[j])
                         /\ IsWaypoint(JsonParse(q.nodes).value[j + 1])}}

SnapsFirstInOrder(graph, pipes, ws) ==
    /\ [i \in 1..Len(graph.nodes) |->
           [key |-> graph.nodes[i].key, position |-> graph.nodes[i].position]]
       = NodesAfter(ws, Len(ws))
    /\ \A w \in Range(ws) : NodesInReach(graph, w) # {}
    /\ Range(graph.edges) = SnappedEdges(graph, pipes)

\* C19.  Snapping: each valid waypoint is assigned to the first node, in
\* insertion order, closer than connectDistance; only when there is none is
\* a node created, keyed and positioned at the waypoint; and the position of
\* a node never changes afterwards.
C19_Snapping ==
    flowCall.called
    => SnapsFirstInOrder(CallGraph, flowCall.pipelines,
                         WaypointsOf(flowCall.pipelines, 1))

\* a waypoint within reach of two nodes is assigned to the first, which is
\* not the nearest
C19_Witness ==
    /\ flowCall.called /\ ActiveTankSet # {}
    /\ \E p \in Range(flowCall.pipelines) :
          \E w \in Range(JsonParse(p.nodes).value) :
             /\ IsWaypoint(w)
             /\ Cardinality(NodesInReach(CallGraph, w)) = 2
             /\ \E i \in NodesInReach(CallGraph, w) :
                   /\ i # Min(NodesInReach(CallGraph, w))
                   /\ LessThan(haversineDistance(Pt(w.lat, w.lng),
                                                 CallGraph.nodes[i].position), 30)
             /\ \E edge \in Range(CallGraph.edges) :
                   /\ edge.to = FirstInReach(CallGraph, w)
                   /\ edge.to # <<w.lat, w.lng>>
                   /\ edge.pipelineId = p.id

-----------------------------------------------------------------------------
(* Seeding *)

\* the node keys the tank loop puts in its queues before traversing
QueuedSeeds(graph) ==
    UNION {{q.nodeKey : q \in Range(SeedQueue(graph, t, CONNECT_DISTANCE))} :
              t \in Range(SelectSeq(flowCall.tanks, IsActiveTank))}

\* every edge of every seed node has an entry, flowing or blocked
SeedEdgesClassified(graph) ==
    \A n \in Range(graph.nodes) :
       n.key \in SeedKeys(graph)
       => \A edge \in Range(n.edges) :
             EdgePair(edge) \in FlowingPairs \cup BlockedPairs

\* C20.  Seeding: the seeds are exactly the graph nodes closer than
\* connectDistance to some active tank; an inactive tank seeds nothing; and
\* every edge incident to a seed node is classified, flowing or blocked, in
\* the result.
C20_Seeding ==
    Returned /\ ActiveTankSet # {}
    => /\ QueuedSeeds(CallGraph) = SeedKeys(CallGraph)
       /\ SeedEdgesClassified(CallGraph)
       /\ \A seg \in Range(flowCall.ret.segments) :
             \E t \in ActiveTankSet : seg.sourceTank = t.name
       /\ SeedKeys(CallGraph) = {}
          => flowCall.ret.segments = <<>> /\ flowCall.ret.blockedSegments = <<>>

\* an inactive tank beside a node that is no seed, an active tank beside
\* another node, and entries in the result
C20_Witness ==
    /\ Returned
    /\ SeedKeys(CallGraph) # {}
    /\ flowCall.ret.segments # <<>>
    /\ \E t \in Range(flowCall.tanks) :
          /\ ~t.isActive
          /\ \E n \in Range(CallGraph.nodes) :
                /\ Snaps([lat |-> t.latitude, lng |-> t.longitude], n.position)
                /\ n.key \notin SeedKeys(CallGraph)
                /\ n.edges # <<>>

-----------------------------------------------------------------------------
(* Termination of the traversal *)

\* the call ran the tank loop, so locals holds what it ended with
Traversed == flowCall.called /\ ActiveTankSet # {}

\* no node key occurs twice in the list
NoRepeat(keys) == \A i, j \in 1..Len(keys) : i # j => keys[i] # keys[j]

\* C21.  The traversal terminates on every finite graph, cycles, self-loops
\* and shared seeds included: the queue ends empty after at most one
\* iteration per seed and per flowing segment, and each graph node is
\* expanded at most once over the whole call.
C21_Termination ==
    Traversed
    => /\ locals.queue = <<>>
       /\ NoRepeat(locals.expanded)
       /\ Range(locals.expanded) \subseteq {n.key : n \in Range(CallGraph.nodes)}
       /\ locals.steps <= Cardinality(ActiveTankSet) * Len(CallGraph.nodes)
                          + Len(locals.segments)

\* two active tanks seed the same node of a graph with a cycle or a
\* self-loop, and some queue entry is skipped as already visited
C21_Witness ==
    /\ Traversed
    /\ Cardinality(ActiveTankSet) = 2
    /\ \E n \in Range(CallGraph.nodes) :
          \A t \in ActiveTankSet :
             Snaps([lat |-> t.latitude, lng |-> t.longitude], n.position)
    /\ Len(CallGraph.edges) >= Len(CallGraph.nodes)
    /\ locals.steps > Len(locals.expanded)
    /\ Len(locals.expanded) >= 2

-----------------------------------------------------------------------------
(* Soundness and completeness of the classification *)

\* some closed valve blocks the graph edge
Blocks(graph, e) ==
    \E v \in ClosedValveSet :
       ProjectsWithin3m(v, PosOf(graph, e.from), PosOf(graph, e.to))

\* the nodes joined to R by a path of edges that no closed valve blocks
RECURSIVE ReachFlowing(_, _)
ReachFlowing(R, graph) ==
    LET open == {e \in Range(graph.edges) : ~Blocks(graph, e)}
        new == {e.to : e \in {e \in open : e.from \in R}}
               \cup {e.from : e \in {e \in open : e.to \in R}}
    IN  IF new \subseteq R THEN R ELSE ReachFlowing(R \cup new, graph)

\* the edge has an end among the reached nodes
Touches(e, reached) == e.from \in reached \/ e.to \in reached

SoundAndComplete(graph, reached) ==
    /\ FlowingPairs = {EdgePair(e) : e \in {e \in Range(graph.edges) :
                          ~Blocks(graph, e) /\ Touches(e, reached)}}
    /\ BlockedPairs = {EdgePair(e) : e \in {e \in Range(graph.edges) :
                          Blocks(graph, e) /\ Touches(e, reached)}}
    /\ \A e \in Range(graph.edges) :
          ~Blocks(graph, e) /\ Touches(e, reached)
          => e.from \in reached /\ e.to \in reached

\* C22.  A segment is in the flowing list exactly when no closed valve
\* blocks it and one of its ends is joined to a seed by flowing segments
\* (then both ends are); it is in the blocked list exactly when a closed
\* valve blocks it and one of its ends is so joined; a blocked segment with
\* no reached end is in neither list.
C22_Classification ==
    Returned /\ ActiveTankSet # {}
    => SoundAndComplete(CallGraph, ReachFlowing(SeedKeys(CallGraph), CallGraph))

\* one call with a blocked segment next to a seed and a blocked segment
\* beyond it that is in neither list
C22_Witness ==
    /\ Returned
    /\ SeedKeys(CallGraph) # {}
    /\ flowCall.ret.blockedSegments # <<>>
    /\ \E e \in Range(CallGraph.edges) :
          /\ Blocks(CallGraph, e)
          /\ EdgePair(e) \notin BlockedPairs
          /\ EdgePair(e) \notin FlowingPairs

-----------------------------------------------------------------------------
(* The estimated flow of a main valve *)

\* the pipeline has a sub-segment closer than 15 m to the valve, the
\* closest point clamped to the sub-segment
SubSegmentsNear(valve, pipe) ==
    LET nodes == JsonParse(pipe.nodes).value
    IN  {i \in 1..(Len(nodes) - 1) :
            /\ IsWaypoint(nodes[i]) /\ IsWaypoint(nodes[i + 1])
            /\ LessThan(distanceToSegment(Pt(valve.latitude, valve.longitude),
                                          Pt(nodes[i].lat, nodes[i].lng),
                                          Pt(nodes[i + 1].lat, nodes[i + 1].lng)),
                        VALVE_PIPE_DISTANCE)}

\* the pipeline owns an entry of the flowing list
OwnsFlowing(pipe) ==
    \E seg \in Range(flowCall.ret.segments) : seg.pipelineId = pipe.id

\* the pipelines of the call that pass the valve and own a flowing entry
FeedingPipelines(valve) ==
    {pipe \in Range(overview.pipelines) :
        SubSegmentsNear(valve, pipe) # {} /\ OwnsFlowing(pipe)}

RECURSIVE SumOfCapacities(_)
SumOfCapacities(pipes) ==
    IF pipes = {} THEN 0
    ELSE LET pipe == CHOOSE q \in pipes : TRUE
         IN  pipe.capacity + SumOfCapacities(pipes \ {pipe})

\* the flow engine's result in flowCall is the one the overview was made from
SameCall ==
    /\ flowCall.called /\ ~flowCall.ret.raised
    /\ flowCall.tanks = overview.tanks
    /\ flowCall.valves = overview.valves
    /\ flowCall.pipelines = overview.pipelines

\* C23.  The totalFlow of an open main valve is 0.8 x the sum of the
\* capacities of the pipelines that have a sub-segment closer than 15 m
\* (clamped distance) to the valve and own an entry of the flowing list, each
\* pipeline counted once.
C23_EstimatedFlow ==
    OverviewReturned /\ SameCall
    => \A node \in Range(overview.ret.valveTree) :
          node.valve.isOpen
          => SameRat(node.totalFlow,
                     Rat(4 * SumOfCapacities(FeedingPipelines(node.valve)), 5))

\* an open main valve beside two flowing pipelines, two sub-segments of one
\* of them closer than 15 m, and a total that is no whole number
C23_Witness ==
    /\ OverviewReturned /\ SameCall
    /\ \E node \in Range(overview.ret.valveTree) :
          /\ node.valve.isOpen
          /\ Cardinality(FeedingPipelines(node.valve)) = 2
          /\ \E pipe \in FeedingPipelines(node.valve) :
                Cardinality(SubSegmentsNear(node.valve, pipe)) = 2
          /\ node.totalFlow.num % node.totalFlow.den # 0

-----------------------------------------------------------------------------
(* Separation of the nodes *)

\* the two positions are at least connectDistance apart
Apart(a, b) ==
    (a.lat - b.lat) * (a.lat - b.lat) + (a.lng - b.lng) * (a.lng - b.lng)
    >= CONNECT_DISTANCE * CONNECT_DISTANCE

\* the adjacency list of the node holds one entry for each end an edge of
\* the graph has at it
AdjacencyKept(graph, n) ==
    Len(n.edges)
    = Cardinality({k \in DOMAIN graph.edges : graph.edges[k].from = n.key})
      + Cardinality({k \in DOMAIN graph.edges : graph.edges[k].to = n.key})

Separated(graph) ==
    /\ \A i, j \in DOMAIN graph.nodes :
          i # j => /\ graph.nodes[i].key # graph.nodes[j].key
                   /\ Apart(graph.nodes[i].position, graph.nodes[j].position)
    /\ \A n \in Range(graph.nodes) : AdjacencyKept(graph, n)

\* C24.  In every graph buildPipelineGraph returns, two distinct nodes are at
\* least connectDistance apart, and no node key is inserted twice: no
\* adjacency list is overwritten by a later waypoint.
C24_NodeSeparation == flowCall.called => Separated(CallGraph)

\* a graph of several nodes with edges, of which a waypoint snapped onto one
C24_Witness ==
    /\ flowCall.called /\ ActiveTankSet # {}
    /\ Len(CallGraph.nodes) >= 2
    /\ Len(CallGraph.nodes) < Len(WaypointsOf(flowCall.pipelines, 1))
    /\ \A n \in Range(CallGraph.nodes) : n.edges # <<>>
    /\ \E w \in Range(WaypointsOf(flowCall.pipelines, 1)) :
          \A n \in Range(CallGraph.nodes) : n.key # <<w.lat, w.lng>>

-----------------------------------------------------------------------------
(* The order of the tanks *)

\* the orders the tanks of the call can be passed in
TankOrders(n) ==
    {f \in [1..n -> 1..n] : \A i, j \in 1..n : i # j => f[i] # f[j]}

Reordered(tks, f) == [i \in 1..Len(tks) |-> tks[f[i]]]

PairsOf(segs) == {SegmentPair(seg) : seg \in Range(segs)}

\* the result of the call had its tanks come in the order f
ResultIn(f) ==
    calculateFlowPaths(Reordered(flowCall.tanks, f), flowCall.valves,
                       flowCall.pipelines)

SamePairs(ret) ==
    /\ ret.raised = flowCall.ret.raised
    /\ PairsOf(ret.segments) = FlowingPairs
    /\ PairsOf(ret.blockedSegments) = BlockedPairs
    /\ ret.totalSegments = flowCall.ret.totalSegments

\* C25.  Permuting the tanks of the input of calculateFlowPaths changes
\* neither the set of node pairs classified flowing nor the set classified
\* blocked; only the sourceTank labels may differ.
C25_TankOrder ==
    flowCall.called
    => \A f \in TankOrders(Len(flowCall.tanks)) : SamePairs(ResultIn(f))

\* two active tanks on either side of a blocked segment, and an order of
\* the tanks in which the lists differ in labels or order
C25_Witness ==
    /\ Returned
    /\ Cardinality(ActiveTankSet) = 2
    /\ flowCall.ret.blockedSegments # <<>>
    /\ Len(flowCall.ret.segments) >= 2
    /\ \E f \in TankOrders(Len(flowCall.tanks)) :
          ResultIn(f).segments # flowCall.ret.segments

-----------------------------------------------------------------------------
(* The denominator totalSegments *)

\* C26.  With an active tank, the totalSegments calculateFlowPaths returns is
\* not negative and is at least flowing.length + blocked.length, for every
\* pipeline list the graph builder accepts, a pipeline with an empty node
\* array included.
C26_DenominatorSound ==
    Returned /\ ActiveTankSet # {}
    => /\ flowCall.ret.totalSegments >= 0
       /\ flowCall.ret.totalSegments
          >= Len(flowCall.ret.segments) + Len(flowCall.ret.blockedSegments)

-----------------------------------------------------------------------------
(* Flow attributed to each pipeline *)

\* the pipeline has a sub-segment that no closed valve blocks, with an end
\* reached from an active tank
CarriesFlow(graph, reached, pipe) ==
    \E e \in Range(graph.edges) :
       e.pipelineId = pipe.id /\ ~Blocks(graph, e) /\ Touches(e, reached)

\* C27.  Every active pipeline with a sub-segment that is not blocked and has
\* an end reached from an active tank owns an entry of the flowing list with
\* its own pipelineId, also when two pipelines' sub-segments snap to the same
\* pair of graph nodes.
C27_FlowAttribution ==
    Returned /\ ActiveTankSet # {}
    => \A pipe \in Range(flowCall.pipelines) :
          CarriesFlow(CallGraph, ReachFlowing(SeedKeys(CallGraph), CallGraph), pipe)
          => OwnsFlowing(pipe)

-----------------------------------------------------------------------------
(* Regions against the global totals *)

RECURSIVE SumFlows(_, _)
SumFlows(rows, k) ==
    IF k > Len(rows) THEN Zero ELSE RAdd(rows[k].totalFlow, SumFlows(rows, k + 1))

RolledUp(report) ==
    /\ SumSeq([i \in DOMAIN report.regions |-> report.regions[i].totalHouseholds])
       = report.stats.totalHouseholds
    /\ SumSeq([i \in DOMAIN report.regions |-> report.regions[i].servedHouseholds])
       = report.stats.servedHouseholds
    /\ SameRat(SumFlows(report.regions, 1), SumFlows(report.valveTree, 1))
    /\ RoundDiv(SumFlows(report.regions, 1).num, SumFlows(report.regions, 1).den)
       = report.stats.totalFlow

\* C28.  The regions' totalHouseholds sum to stats.totalHouseholds, their
\* servedHouseholds to stats.servedHouseholds, and their totalFlow to the
\* global totalFlow before rounding.
C28_RollupConsistency == OverviewReturned => RolledUp(overview.ret)

\* two regions with households, served households and flow, and a sub valve
C28_Witness ==
    /\ OverviewReturned
    /\ Len(overview.ret.regions) = 2
    /\ \A r \in Range(overview.ret.regions) :
          r.totalHouseholds > 0 /\ r.servedHouseholds > 0 /\ r.totalFlow.num > 0
    /\ \E v \in Range(overview.valves) : IsSub(v) /\ v.households > 0

-----------------------------------------------------------------------------
(* Flow at a valve beyond a closed gate *)

\* sub-segment i of the pipeline, as the pair of nodes its waypoints snap to,
\* is in the flowing list
SubSegmentFlows(graph, pipe, i) ==
    LET nodes == JsonParse(pipe.nodes).value
    IN  {FirstInReach(graph, nodes[i]), FirstInReach(graph, nodes[i + 1])}
        \in FlowingPairs

\* some sub-segment closer than 15 m to the valve is in the flowing list
NearFlowingSubSegment(graph, valve) ==
    \E pipe \in Range(overview.pipelines) :
       \E i \in SubSegmentsNear(valve, pipe) : SubSegmentFlows(graph, pipe, i)

\* C29.  An open main valve has totalFlow > 0, or serves a household, only
\* if some pipeline sub-segment closer than 15 m to it is itself in the
\* flowing list; a valve whose nearby sub-segments are all blocked or
\* unreached gets no flow.
C29_NoFlowPastClosedGate ==
    OverviewReturned /\ SameCall
    => \A node \in Range(overview.ret.valveTree) :
          node.valve.isOpen /\ (node.totalFlow.num > 0 \/ node.servedHouseholds > 0)
          => NearFlowingSubSegment(CallGraph, node.valve)

-----------------------------------------------------------------------------
(* Toggles of a valve *)

\* the writes of answered toggle requests: the steps of the history that
\* change neither the tanks nor the pipelines
ToggleWrites ==
    {k \in 1..(Len(history) - 1) :
        history[k + 1][1] = history[k][1] /\ history[k + 1][3] = history[k][3]}

\* isOpen flipped n times
Flipped(isOpen, n) == IF n % 2 = 0 THEN isOpen ELSE 1 - isOpen

\* C30.  Every answered PATCH /api/valve/:valveId/toggle flips the stored
\* isOpen exactly once: after n answered toggles, however their database
\* callbacks interleave, the stored isOpen is the initial one flipped n times.
C30_ToggleAtomicity ==
    \A i \in DOMAIN valves :
       valves[i].isOpen = Flipped(history[1][2][i].isOpen, Cardinality(ToggleWrites))

=============================================================================
